---- MODULE Spec2Model ----
(***************************************************************************)
(* discord/ui/input_text.py: the InputText modal field.                    *)
(*                                                                         *)
(* One InputText object is modelled: its attributes are the variables, its *)
(* constructor, property setters and refresh_state are the actions, its    *)
(* getters and to_component_dict are operators over the attributes.        *)
(*                                                                         *)
(* Python values are records [k, n, s]: k is the class name, n the integer *)
(* payload (int, bool, enum member value), s the text payload (str).       *)
(* Text is kept run-length encoded: a sequence of runs [c, n] standing for *)
(* n copies of the character c, adjacent runs having different characters. *)
(***************************************************************************)
EXTENDS Integers, Sequences, FiniteSets, TLC

VARIABLES
    constructed,    \* __init__ has returned normally: the object exists
    underlying,     \* self._underlying, the InputTextComponent's attributes
    input_value,    \* self._input_value
    row,            \* self.row
    rendered_row,   \* self._rendered_row
    lastCall,       \* the last call made on the object and how it ended
    ingested,       \* history: refresh_state has been called
    response,       \* history: data["value"] of the last refresh_state call
    prefill,        \* history: value of the last successful pre-fill assignment
    nops            \* number of calls made after construction

vars == <<constructed, underlying, input_value, row, rendered_row,
          lastCall, ingested, response, prefill, nops>>

(***************************************************************************)
(* Bounds of the exploration.                                              *)
(***************************************************************************)
MaxOps == 2
MaxKwargs == 1
NumSamples == 2

(***************************************************************************)
(* Program constants.                                                      *)
(***************************************************************************)
LabelMax == 45
LengthMax == 4000
ValueMax == 4000
PlaceholderMax == 100
UrandomBytes == 16

(***************************************************************************)
(* Text.                                                                   *)
(***************************************************************************)
Run(c, n) == IF n <= 0 THEN <<>> ELSE <<[c |-> c, n |-> n]>>

Cat(a, b) ==
    IF a = <<>> THEN b
    ELSE IF b = <<>> THEN a
    ELSE IF a[Len(a)].c = b[1].c
         THEN SubSeq(a, 1, Len(a) - 1)
              \o <<[c |-> b[1].c, n |-> a[Len(a)].n + b[1].n]>>
              \o Tail(b)
         ELSE a \o b

RECURSIVE FromChars(_)
FromChars(cs) ==
    IF cs = <<>> THEN <<>> ELSE Cat(Run(Head(cs), 1), FromChars(Tail(cs)))

RECURSIVE StrLen(_)
StrLen(s) == IF s = <<>> THEN 0 ELSE Head(s).n + StrLen(Tail(s))

(***************************************************************************)
(* Python values.                                                          *)
(***************************************************************************)
None == [k |-> "NoneType", n |-> 0, s |-> <<>>]
PyBool(b) == [k |-> "bool", n |-> IF b THEN 1 ELSE 0, s |-> <<>>]
PyInt(i) == [k |-> "int", n |-> i, s |-> <<>>]
PyStr(t) == [k |-> "str", n |-> 0, s |-> t]
PyTrue == PyBool(TRUE)
PyFalse == PyBool(FALSE)

InputTextStyle_short == [k |-> "InputTextStyle", n |-> 1, s |-> <<>>]
InputTextStyle_paragraph == [k |-> "InputTextStyle", n |-> 2, s |-> <<>>]
ComponentType_input_text == [k |-> "ComponentType", n |-> 4, s |-> <<>>]

\* bool(v)
Truthy(v) ==
    CASE v.k = "NoneType" -> FALSE
      [] v.k \in {"bool", "int"} -> v.n # 0
      [] v.k = "str" -> v.s # <<>>
      [] OTHER -> TRUE

\* isinstance(v, str), isinstance(v, int), isinstance(v, bool),
\* isinstance(v, InputTextStyle); bool is a subclass of int
IsStr(v) == v.k = "str"
IsInt(v) == v.k \in {"int", "bool"}
IsBool(v) == v.k = "bool"
IsStyle(v) == v.k = "InputTextStyle"

DigitChars == <<"0", "1", "2", "3", "4", "5", "6", "7", "8", "9">>

RECURSIVE Decimal(_)
Decimal(i) ==
    IF i < 0 THEN Cat(Run("-", 1), Decimal(-i))
    ELSE IF i < 10 THEN Run(DigitChars[i + 1], 1)
    ELSE Cat(Decimal(i \div 10), Run(DigitChars[(i % 10) + 1], 1))

\* str(v)
Str(v) ==
    CASE v.k = "str" -> v.s
      [] v.k = "int" -> Decimal(v.n)
      [] v.k = "bool" -> IF v.n = 1 THEN FromChars(<<"T", "r", "u", "e">>)
                         ELSE FromChars(<<"F", "a", "l", "s", "e">>)
      [] v.k = "NoneType" -> FromChars(<<"N", "o", "n", "e">>)

\* len(str(v))
LenStr(v) == StrLen(Str(v))

(***************************************************************************)
(* os.urandom(16).hex()                                                    *)
(***************************************************************************)
HexChars == <<"0", "1", "2", "3", "4", "5", "6", "7",
              "8", "9", "a", "b", "c", "d", "e", "f">>

RECURSIVE Hex(_)
Hex(bytes) ==
    IF bytes = <<>> THEN <<>>
    ELSE Cat(Cat(Run(HexChars[(Head(bytes) \div 16) + 1], 1),
                 Run(HexChars[(Head(bytes) % 16) + 1], 1)),
             Hex(Tail(bytes)))

\* the byte strings os.urandom may return that the exploration draws from
Urandom(size) ==
    { [i \in 1..size |-> (k * 89 + i * 37) % 256] : k \in 1..NumSamples }

(***************************************************************************)
(* The object.                                                             *)
(***************************************************************************)
ComponentFields ==
    {"type", "style", "custom_id", "label", "placeholder",
     "min_length", "max_length", "required", "value", "id"}

Self == [underlying |-> underlying, input_value |-> input_value,
         row |-> row, rendered_row |-> rendered_row]

\* the object before __init__ has run: no attribute is set
Blank == [underlying |-> [f \in ComponentFields |-> None],
          input_value |-> None, row |-> None, rendered_row |-> None]

Returned(o) == [raised |-> "ok", self |-> o]
Raised(e, o) == [raised |-> e, self |-> o]

\* InputTextComponent._raw_construct(**kwargs): a component whose
\* attributes are the keyword arguments
raw_construct(kwargs) == [f \in ComponentFields |-> kwargs[f]]

\* the validation of InputText.__init__: the exception it raises, if any
init_error(kw) ==
    IF LenStr(kw.label) > LabelMax THEN "ValueError"
    ELSE IF Truthy(kw.min_length)
            /\ (kw.min_length.n < 0 \/ kw.min_length.n > LengthMax)
    THEN "ValueError"
    ELSE IF Truthy(kw.max_length)
            /\ (kw.max_length.n < 0 \/ kw.max_length.n > LengthMax)
    THEN "ValueError"
    ELSE IF Truthy(kw.value) /\ LenStr(kw.value) > ValueMax
    THEN "ValueError"
    ELSE IF Truthy(kw.placeholder) /\ LenStr(kw.placeholder) > PlaceholderMax
    THEN "ValueError"
    ELSE IF ~IsStr(kw.custom_id) /\ kw.custom_id # None
    THEN "TypeError"
    ELSE "ok"

\* a plausible slip: min_length and max_length passed on crosswise
component_kwargs_crossed(kw, custom_id) ==
    [type |-> ComponentType_input_text, style |-> kw.style,
     custom_id |-> custom_id, label |-> kw.label,
     placeholder |-> kw.placeholder, min_length |-> kw.max_length,
     max_length |-> kw.min_length, required |-> kw.required,
     value |-> kw.value, id |-> kw.id]

\* the keyword arguments __init__ hands to _raw_construct
component_kwargs(kw, custom_id) ==
    [type |-> ComponentType_input_text, style |-> kw.style,
     custom_id |-> custom_id, label |-> kw.label,
     placeholder |-> kw.placeholder, min_length |-> kw.min_length,
     max_length |-> kw.max_length, required |-> kw.required,
     value |-> kw.value, id |-> kw.id]

\* InputText.__init__(self, *, style, custom_id, label, placeholder,
\* min_length, max_length, required, value, row, id); rnd is what
\* os.urandom(16) returns when it is called
init(self, kw, rnd) ==
    IF init_error(kw) # "ok" THEN Raised(init_error(kw), self)
    ELSE LET custom_id == IF kw.custom_id = None
                          THEN PyStr(Hex(rnd)) ELSE kw.custom_id
         IN Returned([underlying |->
                          raw_construct(component_kwargs(kw, custom_id)),
                      input_value |-> PyFalse,
                      row |-> kw.row,
                      rendered_row |-> None])

\* self._underlying.<field> = v
Assign(self, field, v) ==
    [self EXCEPT !.underlying = [@ EXCEPT ![field] = v]]

\* a plausible slip: the isinstance test left out
style_setter_unchecked(self, value) ==
    Returned(Assign(self, "style", value))

\* @style.setter
style_setter(self, value) ==
    IF ~IsStyle(value) THEN Raised("TypeError", self)
    ELSE Returned(Assign(self, "style", value))

\* a plausible slip: the isinstance test left out
custom_id_setter_unchecked(self, value) ==
    Returned(Assign(self, "custom_id", value))

\* @custom_id.setter
custom_id_setter(self, value) ==
    IF ~IsStr(value) THEN Raised("TypeError", self)
    ELSE Returned(Assign(self, "custom_id", value))

\* a plausible slip: the attribute assigned before the length is tested
label_setter_assign_first(self, value) ==
    IF ~IsStr(value) THEN Raised("TypeError", self)
    ELSE IF StrLen(value.s) > LabelMax
    THEN Raised("ValueError", Assign(self, "label", value))
    ELSE Returned(Assign(self, "label", value))

\* a plausible slip: the length test left out
label_setter_unbounded(self, value) ==
    IF ~IsStr(value) THEN Raised("TypeError", self)
    ELSE Returned(Assign(self, "label", value))

\* @label.setter
label_setter(self, value) ==
    IF ~IsStr(value) THEN Raised("TypeError", self)
    ELSE IF StrLen(value.s) > LabelMax THEN Raised("ValueError", self)
    ELSE Returned(Assign(self, "label", value))

\* @placeholder.setter
placeholder_setter(self, value) ==
    IF Truthy(value) /\ ~IsStr(value) THEN Raised("TypeError", self)
    ELSE IF Truthy(value) /\ StrLen(value.s) > PlaceholderMax
    THEN Raised("ValueError", self)
    ELSE Returned(Assign(self, "placeholder", value))

\* a or b
PyOr(a, b) == IF Truthy(a) THEN a ELSE b

\* @min_length.setter: the test is  value and ((value < 0 or value) > 4000)
min_length_setter(self, value) ==
    IF Truthy(value) /\ ~IsInt(value) THEN Raised("TypeError", self)
    ELSE IF Truthy(value)
            /\ PyOr(PyBool(value.n < 0), value).n > LengthMax
    THEN Raised("ValueError", self)
    ELSE Returned(Assign(self, "min_length", value))

\* a plausible change: max_length tested against the current min_length
max_length_setter_ordered(self, value) ==
    IF Truthy(value) /\ ~IsInt(value) THEN Raised("TypeError", self)
    ELSE IF Truthy(value) /\ (value.n <= 0 \/ value.n > LengthMax)
    THEN Raised("ValueError", self)
    ELSE IF Truthy(value) /\ Truthy(self.underlying.min_length)
            /\ value.n < self.underlying.min_length.n
    THEN Raised("ValueError", self)
    ELSE Returned(Assign(self, "max_length", value))

\* @max_length.setter
max_length_setter(self, value) ==
    IF Truthy(value) /\ ~IsInt(value) THEN Raised("TypeError", self)
    ELSE IF Truthy(value) /\ (value.n <= 0 \/ value.n > LengthMax)
    THEN Raised("ValueError", self)
    ELSE Returned(Assign(self, "max_length", value))

\* @required.setter
required_setter(self, value) ==
    IF ~IsBool(value) THEN Raised("TypeError", self)
    ELSE Returned(Assign(self, "required", PyBool(Truthy(value))))

\* @value.setter
value_setter(self, value) ==
    IF Truthy(value) /\ ~IsStr(value) THEN Raised("TypeError", self)
    ELSE IF Truthy(value) /\ LenStr(value) > ValueMax
    THEN Raised("ValueError", self)
    ELSE Returned(Assign(self, "value", value))

\* a plausible slip: the response written over the pre-fill as well
refresh_state_over_prefill(self, data) ==
    Returned([Assign(self, "value", data["value"])
                  EXCEPT !.input_value = data["value"]])

\* refresh_state(self, data), data being {"value": v}
refresh_state(self, data) ==
    Returned([self EXCEPT !.input_value = data["value"]])

(***************************************************************************)
(* Reads.                                                                  *)
(***************************************************************************)
type_getter(self) == self.underlying.type
style_getter(self) == self.underlying.style
id_getter(self) == self.underlying.id
custom_id_getter(self) == self.underlying.custom_id
label_getter(self) == self.underlying.label
placeholder_getter(self) == self.underlying.placeholder
min_length_getter(self) == self.underlying.min_length
max_length_getter(self) == self.underlying.max_length
required_getter(self) == self.underlying.required

\* a plausible slip: the sentinel tested by truth value, not by identity
value_getter_truthy(self) ==
    IF Truthy(self.input_value) THEN self.input_value
    ELSE self.underlying.value

\* @property value
value_getter(self) ==
    IF self.input_value # PyFalse THEN self.input_value
    ELSE self.underlying.value

width(self) == 5

Getters(self) ==
    [type |-> type_getter(self), style |-> style_getter(self),
     id |-> id_getter(self), custom_id |-> custom_id_getter(self),
     label |-> label_getter(self), placeholder |-> placeholder_getter(self),
     min_length |-> min_length_getter(self),
     max_length |-> max_length_getter(self),
     required |-> required_getter(self), value |-> value_getter(self),
     width |-> width(self), row |-> self.row]

\* InputTextComponent.to_dict(): the wire record; an attribute that is
\* None is absent from it, the style is written as the member's value
Optional(component, field) ==
    IF component[field] = None THEN [x \in {} |-> None]
    ELSE (field :> component[field])

to_dict(component) ==
    [type |-> PyInt(component.type.n),
     style |-> PyInt(component.style.n),
     custom_id |-> component.custom_id,
     label |-> component.label]
    @@ Optional(component, "placeholder")
    @@ Optional(component, "min_length")
    @@ Optional(component, "max_length")
    @@ Optional(component, "required")
    @@ Optional(component, "value")
    @@ Optional(component, "id")

\* to_component_dict(self)
to_component_dict(self) == to_dict(self.underlying)

(***************************************************************************)
(* The calls explored.                                                     *)
(***************************************************************************)
Text(n) == PyStr(Run("x", n))

StyleMembers == {InputTextStyle_short, InputTextStyle_paragraph}

\* keyword arguments of the constructor and their defaults
OptionalKwargs ==
    {"style", "custom_id", "placeholder", "min_length", "max_length",
     "required", "value", "row", "id"}

Defaults ==
    [style |-> InputTextStyle_short, custom_id |-> None, placeholder |-> None,
     min_length |-> None, max_length |-> None, required |-> PyTrue,
     value |-> None, row |-> None, id |-> None]

KwargValues ==
    [style |-> StyleMembers,
     custom_id |-> {None, Text(0), PyStr(FromChars(<<"i", "d">>)), PyInt(5)},
     label |-> {Text(0), Text(LabelMax), Text(LabelMax + 1), PyInt(7)},
     placeholder |-> {None, Text(PlaceholderMax), Text(PlaceholderMax + 1)},
     min_length |-> {None, PyInt(-1), PyInt(0), PyInt(LengthMax),
                     PyInt(LengthMax + 1)},
     max_length |-> {None, PyInt(-1), PyInt(0), PyInt(1), PyInt(LengthMax),
                     PyInt(LengthMax + 1)},
     required |-> {PyTrue, PyFalse, None},
     value |-> {None, Text(0), Text(ValueMax), Text(ValueMax + 1)},
     row |-> {None, PyInt(4)},
     id |-> {None, PyInt(1)}]

\* the calls that pass the keyword arguments `given`, each with any of
\* its values, on top of the calls in `calls`
RECURSIVE Passing(_, _)
Passing(calls, given) ==
    IF given = {} THEN calls
    ELSE LET f == CHOOSE g \in given : TRUE
         IN Passing({ [kw EXCEPT ![f] = v] : kw \in calls, v \in KwargValues[f] },
                    given \ {f})

\* constructor calls: label and at most MaxKwargs optional arguments
Kwargs ==
    UNION { Passing({ [f \in OptionalKwargs \cup {"label"} |->
                          IF f = "label" THEN label ELSE Defaults[f]] :
                      label \in KwargValues.label }, given) :
            given \in { g \in SUBSET OptionalKwargs : Cardinality(g) <= MaxKwargs } }

\* what lastCall.kw holds for a call that is not the constructor
NoKwargs == [f \in OptionalKwargs \cup {"label"} |-> None]

SetterValues ==
    [style |-> StyleMembers \cup {PyInt(1)},
     custom_id |-> {Text(0), PyStr(FromChars(<<"i", "d">>)), None},
     label |-> {Text(0), Text(LabelMax), Text(LabelMax + 1), PyInt(7)},
     placeholder |-> {None, Text(PlaceholderMax), Text(PlaceholderMax + 1),
                      PyInt(5)},
     min_length |-> {None, PyInt(-1), PyInt(0), PyInt(LengthMax),
                     PyInt(LengthMax + 1), PyStr(FromChars(<<"5">>))},
     max_length |-> {None, PyInt(-1), PyInt(0), PyInt(1), PyInt(LengthMax),
                     PyInt(LengthMax + 1), PyStr(FromChars(<<"5">>))},
     required |-> {PyTrue, PyFalse, None},
     value |-> {None, Text(0), Text(ValueMax), Text(ValueMax + 1), PyInt(5)}]

Responses == {Text(0), PyStr(FromChars(<<"h", "i">>)), Text(ValueMax + 1)}

(***************************************************************************)
(* Behaviour.                                                              *)
(***************************************************************************)
Init ==
    /\ constructed = FALSE
    /\ underlying = Blank.underlying
    /\ input_value = Blank.input_value
    /\ row = Blank.row
    /\ rendered_row = Blank.rendered_row
    /\ lastCall = [op |-> "none", kw |-> NoKwargs, arg |-> None, err |-> "ok"]
    /\ ingested = FALSE
    /\ response = None
    /\ prefill = None
    /\ nops = 0

\* the object becomes what the call left it
Becomes(r) ==
    /\ underlying' = r.self.underlying
    /\ input_value' = r.self.input_value
    /\ row' = r.self.row
    /\ rendered_row' = r.self.rendered_row

\* InputText(**kw)
Construct ==
    /\ ~constructed
    /\ lastCall.op = "none"
    /\ \E kw \in Kwargs, rnd \in Urandom(UrandomBytes) :
          LET r == init(Self, kw, rnd)
          IN /\ Becomes(r)
             /\ constructed' = (r.raised = "ok")
             /\ lastCall' = [op |-> "__init__", kw |-> kw, arg |-> None,
                             err |-> r.raised]
             /\ prefill' = IF r.raised = "ok" THEN kw.value ELSE prefill
    /\ UNCHANGED <<ingested, response, nops>>

\* a call of a setter or of refresh_state on the constructed object
Called(op, arg, r) ==
    /\ Becomes(r)
    /\ lastCall' = [op |-> op, kw |-> NoKwargs, arg |-> arg, err |-> r.raised]
    /\ nops' = nops + 1
    /\ UNCHANGED constructed

CanCall == constructed /\ nops < MaxOps

SetStyle ==
    /\ CanCall
    /\ \E v \in SetterValues.style : Called("style", v, style_setter(Self, v))
    /\ UNCHANGED <<ingested, response, prefill>>

SetCustomId ==
    /\ CanCall
    /\ \E v \in SetterValues.custom_id :
          Called("custom_id", v, custom_id_setter(Self, v))
    /\ UNCHANGED <<ingested, response, prefill>>

SetLabel ==
    /\ CanCall
    /\ \E v \in SetterValues.label : Called("label", v, label_setter(Self, v))
    /\ UNCHANGED <<ingested, response, prefill>>

SetPlaceholder ==
    /\ CanCall
    /\ \E v \in SetterValues.placeholder :
          Called("placeholder", v, placeholder_setter(Self, v))
    /\ UNCHANGED <<ingested, response, prefill>>

SetMinLength ==
    /\ CanCall
    /\ \E v \in SetterValues.min_length :
          Called("min_length", v, min_length_setter(Self, v))
    /\ UNCHANGED <<ingested, response, prefill>>

SetMaxLength ==
    /\ CanCall
    /\ \E v \in SetterValues.max_length :
          Called("max_length", v, max_length_setter(Self, v))
    /\ UNCHANGED <<ingested, response, prefill>>

SetRequired ==
    /\ CanCall
    /\ \E v \in SetterValues.required :
          Called("required", v, required_setter(Self, v))
    /\ UNCHANGED <<ingested, response, prefill>>

SetValue ==
    /\ CanCall
    /\ \E v \in SetterValues.value :
          LET r == value_setter(Self, v)
          IN /\ Called("value", v, r)
             /\ prefill' = IF r.raised = "ok" THEN v ELSE prefill
    /\ UNCHANGED <<ingested, response>>

RefreshState ==
    /\ CanCall
    /\ \E v \in Responses :
          /\ Called("refresh_state", v, refresh_state(Self, [value |-> v]))
          /\ ingested' = TRUE
          /\ response' = v
    /\ UNCHANGED prefill

Next ==
    \/ Construct
    \/ SetStyle
    \/ SetCustomId
    \/ SetLabel
    \/ SetPlaceholder
    \/ SetMinLength
    \/ SetMaxLength
    \/ SetRequired
    \/ SetValue
    \/ RefreshState

Spec == Init /\ [][Next]_vars

(***************************************************************************)
(* Properties.                                                             *)
(***************************************************************************)
Did(op) == lastCall.op = op
Ok == lastCall.err = "ok"

SetterOps ==
    {"style", "custom_id", "label", "placeholder", "min_length",
     "max_length", "required", "value"}

\* the setter called op, applied to the object o
Setter(op, o, v) ==
    CASE op = "style" -> style_setter(o, v)
      [] op = "custom_id" -> custom_id_setter(o, v)
      [] op = "label" -> label_setter(o, v)
      [] op = "placeholder" -> placeholder_setter(o, v)
      [] op = "min_length" -> min_length_setter(o, v)
      [] op = "max_length" -> max_length_setter(o, v)
      [] op = "required" -> required_setter(o, v)
      [] op = "value" -> value_setter(o, v)

\* a field constructed with only a label
Fresh ==
    init(Blank, Defaults @@ [label |-> Text(1)],
         [i \in 1..UrandomBytes |-> 0]).self

InRange(v, lo, hi) == v.k = "int" /\ lo <= v.n /\ v.n <= hi

\* C1: reading `value` returns the most recently ingested response once
\* refresh_state has been called (also the empty response, also after a later
\* value assignment), and before that the pre-fill last assigned by the
\* constructor or by a successful value setter; after an ingestion the read
\* never falls back to the pre-fill.
C1_ValueReadsResponseThenOnly ==
    constructed =>
        value_getter(Self) = IF ingested THEN response ELSE prefill

C1_Witness ==
    /\ constructed /\ ingested
    /\ response = Text(0)
    /\ Did("value") /\ Ok /\ lastCall.arg = Text(ValueMax)
    /\ prefill = Text(ValueMax)
    /\ value_getter(Self) = Text(0)

\* C2: an integer max_length is accepted when it is in [1, 4000] and rejected
\* with ValueError when it is 0, negative or above 4000, by the constructor
\* and by the setter alike; an absent max_length is accepted.
C2_MaxLengthRange ==
    /\ Did("max_length") /\ lastCall.arg.k = "int" =>
          IF InRange(lastCall.arg, 1, LengthMax) THEN Ok
          ELSE lastCall.err = "ValueError"
    /\ Did("max_length") /\ lastCall.arg = None => Ok
    /\ Did("__init__") /\ lastCall.kw.max_length.k = "int" =>
          IF InRange(lastCall.kw.max_length, 1, LengthMax)
          THEN lastCall.err
                   = init_error([lastCall.kw EXCEPT !.max_length = None])
          ELSE lastCall.err = "ValueError"

\* C3: an integer min_length is accepted when it is in [0, 4000] and rejected
\* with ValueError when it is negative or above 4000, by the constructor and
\* by the setter alike: the setter rejects what the constructor rejects.
C3_MinLengthRange ==
    /\ Did("min_length") /\ lastCall.arg.k = "int" =>
          IF InRange(lastCall.arg, 0, LengthMax) THEN Ok
          ELSE lastCall.err = "ValueError"
    /\ Did("__init__") /\ lastCall.kw.min_length.k = "int" =>
          IF InRange(lastCall.kw.min_length, 0, LengthMax)
          THEN lastCall.err
                   = init_error([lastCall.kw EXCEPT !.min_length = None])
          ELSE lastCall.err = "ValueError"
    /\ Did("min_length") /\ lastCall.arg.k = "int" =>
          (Ok <=> init_error([Defaults @@ [label |-> Text(1)]
                                  EXCEPT !.min_length = lastCall.arg]) = "ok")

IsHex(s) ==
    \A i \in 1..Len(s) : \E j \in 1..Len(HexChars) : s[i].c = HexChars[j]

\* C4 as stated: in every state of a constructed field custom_id is a
\* non-empty string.
C4_CustomIdNonEmpty ==
    constructed =>
        /\ IsStr(custom_id_getter(Self))
        /\ StrLen(custom_id_getter(Self).s) > 0

\* C4 amended: in every state of a constructed field custom_id is present and
\* is a string; when the constructor was given none it is the generated one,
\* 32 lowercase hexadecimal characters; a custom_id the caller supplies is
\* stored as given, the empty string included.
C4_CustomIdIsString ==
    constructed =>
        /\ IsStr(custom_id_getter(Self))
        /\ Did("__init__") /\ lastCall.kw.custom_id = None =>
              /\ StrLen(custom_id_getter(Self).s) = 2 * UrandomBytes
              /\ IsHex(custom_id_getter(Self).s)
        /\ Did("__init__") /\ lastCall.kw.custom_id # None =>
              custom_id_getter(Self) = lastCall.kw.custom_id
        /\ Did("custom_id") /\ Ok => custom_id_getter(Self) = lastCall.arg
        /\ Did("custom_id") /\ ~IsStr(lastCall.arg) =>
              lastCall.err = "TypeError"

C4_Witness ==
    /\ constructed
    /\ Did("custom_id") /\ lastCall.arg = None /\ lastCall.err = "TypeError"
    /\ StrLen(custom_id_getter(Self).s) = 2 * UrandomBytes

\* C5: a setter call that raises ValueError or TypeError leaves the field as
\* it was: the component's attributes, the response state and row, and with
\* them every getter and the wire record, are the same after the call.
C5_FailedSetterChangesNothing ==
    [][(lastCall'.op \in SetterOps /\ lastCall'.err # "ok") =>
          /\ lastCall'.err \in {"ValueError", "TypeError"}
          /\ Self' = Self
          /\ Getters(Self)' = Getters(Self)
          /\ to_component_dict(Self)' = to_component_dict(Self)]_vars

C5_Witness ==
    /\ constructed
    /\ Did("label") /\ lastCall.err = "ValueError"
    /\ lastCall.arg = Text(LabelMax + 1)
    /\ label_getter(Self) # lastCall.arg

\* C6: after a successful construction the wire record holds style,
\* custom_id, label, placeholder, min_length, max_length, required, value
\* and id exactly as given to the constructor (defaults filled in: required
\* true, style short, custom_id generated), and never holds row.
C6_SerializeRoundTrip ==
    (constructed /\ Did("__init__")) =>
        LET d == to_component_dict(Self)
            kw == lastCall.kw
        IN /\ d.style = PyInt(kw.style.n)
           /\ d.label = kw.label
           /\ IF kw.custom_id = None
              THEN IsStr(d.custom_id)
                   /\ StrLen(d.custom_id.s) = 2 * UrandomBytes
              ELSE d.custom_id = kw.custom_id
           /\ \A f \in {"placeholder", "min_length", "max_length",
                        "required", "value", "id"} :
                 IF kw[f] = None THEN f \notin DOMAIN d ELSE d[f] = kw[f]
           /\ "row" \notin DOMAIN d

C6_Witness ==
    /\ constructed /\ Did("__init__")
    /\ lastCall.kw.min_length = PyInt(LengthMax)
    /\ lastCall.kw.custom_id = None
    /\ "max_length" \notin DOMAIN to_component_dict(Self)
    /\ to_component_dict(Self).min_length = PyInt(LengthMax)
    /\ to_component_dict(Self).required = PyTrue

\* C7: assigning style a value that is no InputTextStyle member raises
\* TypeError; assigning a member succeeds, and the style getter and the wire
\* record then give that member, also after a response was ingested.
C7_StyleSetter ==
    Did("style") =>
        IF lastCall.arg \in StyleMembers
        THEN /\ Ok
             /\ style_getter(Self) = lastCall.arg
             /\ to_component_dict(Self).style = PyInt(lastCall.arg.n)
        ELSE lastCall.err = "TypeError"

C7_Witness ==
    /\ Did("style") /\ Ok /\ ingested
    /\ lastCall.arg = InputTextStyle_paragraph
    /\ to_component_dict(Self).style = PyInt(2)

\* C8 as stated: the label of a constructed field always has between 1 and
\* 45 characters.
C8_LabelBetween1And45 ==
    constructed =>
        /\ LenStr(label_getter(Self)) >= 1
        /\ LenStr(label_getter(Self)) <= LabelMax

\* C8 amended: the label of a constructed field always has at most 45
\* characters and may be empty; the constructor and the label setter both
\* raise ValueError for a label of more than 45 characters and both accept
\* the empty label.
C8_LabelAtMost45 ==
    /\ constructed => LenStr(label_getter(Self)) <= LabelMax
    /\ Did("__init__") /\ LenStr(lastCall.kw.label) > LabelMax =>
          lastCall.err = "ValueError" /\ ~constructed
    /\ Did("label") /\ IsStr(lastCall.arg) =>
          IF StrLen(lastCall.arg.s) > LabelMax
          THEN lastCall.err = "ValueError"
          ELSE Ok /\ label_getter(Self) = lastCall.arg

C8_Witness ==
    /\ constructed
    /\ Did("label") /\ lastCall.err = "ValueError"
    /\ label_getter(Self) = Text(0)

\* C9: refresh_state succeeds for every response, of any length, and writes
\* only the response state: the component's attributes, the stored pre-fill
\* among them, and row stay as they were, so the wire record is the same
\* before and after and its value stays the pre-fill.
C9_RefreshWritesOnlyResponse ==
    [][lastCall'.op = "refresh_state" =>
          /\ lastCall'.err = "ok"
          /\ input_value' = lastCall'.arg
          /\ underlying' = underlying
          /\ row' = row
          /\ rendered_row' = rendered_row
          /\ to_component_dict(Self)' = to_component_dict(Self)
          /\ IF prefill = None
             THEN "value" \notin DOMAIN to_component_dict(Self)'
             ELSE to_component_dict(Self)'.value = prefill]_vars

C9_Witness ==
    /\ Did("refresh_state") /\ Ok
    /\ lastCall.arg = Text(ValueMax + 1)
    /\ input_value = Text(ValueMax + 1)
    /\ underlying.value = Text(ValueMax)
    /\ to_component_dict(Self).value = Text(ValueMax)

\* C10: a setter call changes no attribute but its own and not the response
\* state, and whether it accepts its argument does not depend on the other
\* attributes: it ends as the same call on a freshly constructed field ends.
\* No order between min_length and max_length is kept.
C10_SettersIndependent ==
    [][lastCall'.op \in SetterOps =>
          /\ \A f \in ComponentFields \ {lastCall'.op} :
                underlying'[f] = underlying[f]
          /\ input_value' = input_value
          /\ row' = row
          /\ rendered_row' = rendered_row
          /\ lastCall'.err
                 = Setter(lastCall'.op, Fresh, lastCall'.arg).raised
          /\ lastCall'.err = "ok" =>
                underlying'[lastCall'.op] = lastCall'.arg]_vars

C10_Witness ==
    /\ Did("max_length") /\ Ok
    /\ min_length_getter(Self).k = "int"
    /\ max_length_getter(Self).k = "int"
    /\ min_length_getter(Self).n > max_length_getter(Self).n
    /\ max_length_getter(Self) = lastCall.arg

====
